---- MODULE Spec2Model ----
(***************************************************************************)
(* A model of three pieces of model_compression_toolkit:                   *)
(*   - gptq/common/gptq_config.py: GradientPTQConfig, GradientPTQConfigV2  *)
(*     (construction, validation, from_v1, get_extended_quantizer_...)     *)
(*   - tests/.../second_moment_correction_test.py: prepare_graph/run_test  *)
(*   - exporter/.../node_to_dispatcher.py: get_quantization_dispatcher     *)
(* Python values: None is <<>>, an optional value v is <<v>>; an object's  *)
(* __dict__ is a function from attribute names to values.                  *)
(***************************************************************************)
EXTENDS Integers, Sequences, FiniteSets, TLC

\* ------------------------------------------------------------------ bounds
MaxIter == 3
MaxPtqIter == 3
MaxBatches == 1
MaxBN == 2
MaxStat == 2
MaxOutputs == 2
MaxBitWidth == 2

\* ------------------------------------------------------- python primitives
None == <<>>
Some(v) == <<v>>

Restrict(f, S) == [k \in S |-> f[k]]

Merge(f, g) ==
    [k \in DOMAIN f \cup DOMAIN g |-> IF k \in DOMAIN g THEN g[k] ELSE f[k]]

\* keyword argument k of a call, or the signature's default for it
Arg(kw, defaults, k) == IF k \in DOMAIN kw THEN kw[k] ELSE defaults[k]

\* ------------------------------------------------------------ RoundingType
RoundingType == {"STE", "SoftQuantizer"}

\* ---------------------------------------------------- quantizer config objects
\* gptq_quantizer_config.py: SoftQuantizerConfig subclasses GPTQQuantizerConfig;
\* a config object carries n_batches (None until set).
QuantizerConfigObject(t, n) == [type |-> t, n_batches |-> n]

SoftQuantizerConfig == QuantizerConfigObject("SoftQuantizerConfig", None)

\* ------------------------------------------------------------ Logger.error
\* common.Logger.error logs the message and raises: construction halts.
LoggerErrorRaises == TRUE

\* ------------------------------------------------- GradientPTQConfig.__init__
\* the defaults of the signature; lsb_change_per_bit_width and quantizer_config
\* defaults are objects built once, when the def statement runs.
InitDefaults(lsbDefault) ==
    [optimizer_rest |-> None,
     loss |-> None,
     log_function |-> None,
     train_bias |-> TRUE,
     quantization_parameters_learning |-> FALSE,
     rounding_type |-> "SoftQuantizer",
     lsb_change_per_bit_width |-> lsbDefault,
     eps |-> "1e-6",
     use_jac_based_weights |-> TRUE,
     num_samples_for_loss |-> 16,
     norm_weights |-> FALSE,
     optimizer_quantization_parameter |-> None,
     optimizer_bias |-> None,
     log_norm |-> TRUE,
     weights_n_iter |-> 50,
     quantizer_config |-> SoftQuantizerConfig]

\* DefaultDict(known_dict, default_factory): a mapping with overrides and a
\* fallback; known_dict is the set of its <<key, value>> pairs.
\* The fallback of the signatures' DefaultDict({}, lambda: 1).
LsbFallback == 1

\* d.get(key): the override for key, or what the factory returns
DefaultDict_get(known_dict, key) ==
    IF \E p \in known_dict : p[1] = key
    THEN (CHOOSE p \in known_dict : p[1] = key)[2]
    ELSE LsbFallback

\* an override written into the mapping: known_dict[key] = value
DefaultDict_set(known_dict, key, value) ==
    {p \in known_dict : p[1] # key} \cup {<<key, value>>}

\* The DefaultDict objects of a run. A default value in a def statement is
\* evaluated once, when the def statement runs: one object for the signature of
\* GradientPTQConfig.__init__, one for GradientPTQConfigV2.__init__, and every
\* call that leaves the argument out receives that same object.
DefaultDictObjects == {"DefaultDict_V1", "DefaultDict_V2", "DefaultDict_user"}

V1Defaults == InitDefaults("DefaultDict_V1")

V2Defaults == InitDefaults("DefaultDict_V2")

\* variant: the check names the other rounding type
QplSteConflict_soft_rounding(qpl, rt) == qpl /\ rt = "SoftQuantizer"

\* the condition of the first check of __init__
QplSteConflict(qpl, rt) == qpl /\ rt = "STE"

\* variant: isinstance() in place of type() ==
verify_quantizer_config_isinstance(quantizer_config, rounding_type) ==
    IF rounding_type = "SoftQuantizer"
    THEN quantizer_config.type \in {"SoftQuantizerConfig", "SubSoftQuantizerConfig"}
    ELSE quantizer_config.type \in {"GPTQQuantizerConfig", "SoftQuantizerConfig",
                                    "SubSoftQuantizerConfig"}

verify_quantizer_config(quantizer_config, rounding_type) ==
    IF rounding_type = "SoftQuantizer"
    THEN quantizer_config.type = "SoftQuantizerConfig"
    ELSE quantizer_config.type = "GPTQQuantizerConfig"

\* The attributes __init__ sets before its first check.
EarlyAttrs == {"n_iter", "optimizer", "optimizer_rest", "loss", "log_function",
               "train_bias"}

\* variant: optimizer_bias assigned from optimizer_quantization_parameter
SelfAttrs_bias_from_quantization_parameter(n_iter, optimizer, args) ==
    [Merge(args, [n_iter |-> n_iter, optimizer |-> optimizer])
        EXCEPT !.optimizer_bias = args.optimizer_quantization_parameter]

\* the assignments self.<name> = <name> of __init__: every parameter is stored
\* under its own name, as passed
SelfAttrs(n_iter, optimizer, args) ==
    Merge(args, [n_iter |-> n_iter, optimizer |-> optimizer])

\* Result of running __init__: the object's __dict__ as far as it got, the
\* messages handed to Logger.error, and the exception that left __init__ (None
\* when it returned).
GradientPTQConfig_init(n_iter, optimizer, kw, defaults) ==
    LET a(k) == Arg(kw, defaults, k)
        conflict == QplSteConflict(a("quantization_parameters_learning"),
                                   a("rounding_type"))
        halt1 == conflict /\ LoggerErrorRaises
        verified == verify_quantizer_config(a("quantizer_config"), a("rounding_type"))
        full == SelfAttrs(n_iter, optimizer, [k \in DOMAIN defaults |-> a(k)])
    IN [self |-> IF halt1 THEN Restrict(full, EarlyAttrs)
                 ELSE IF verified THEN full
                 ELSE Restrict(full, DOMAIN full \ {"quantizer_config"}),
        errors |-> (IF conflict THEN <<"qpl_with_ste">> ELSE <<>>)
                   \o (IF ~halt1 /\ ~verified THEN <<"quantizer_config_unsuitable">>
                       ELSE <<>>),
        exc |-> IF LoggerErrorRaises /\ (conflict \/ ~verified)
                THEN Some("Exception") ELSE None]

\* ----------------------------------------------- GradientPTQConfigV2.__init__
\* variant: super().__init__(n_iter=n_epochs, ...)
GradientPTQConfigV2_init_n_iter_from_n_epochs(n_epochs, optimizer, kw) ==
    LET r == GradientPTQConfig_init(n_epochs, optimizer,
                                    [k \in DOMAIN V2Defaults |-> Arg(kw, V2Defaults, k)],
                                    V1Defaults)
    IN IF r.exc # None THEN r
       ELSE [r EXCEPT !.self = Merge(r.self, [n_epochs |-> n_epochs])]

\* super().__init__(n_iter=None, ...) with every other argument passed on by
\* keyword, then self.n_epochs = n_epochs
GradientPTQConfigV2_init(n_epochs, optimizer, kw) ==
    LET r == GradientPTQConfig_init(None, optimizer,
                                    [k \in DOMAIN V2Defaults |-> Arg(kw, V2Defaults, k)],
                                    V1Defaults)
    IN IF r.exc # None THEN r
       ELSE [r EXCEPT !.self = Merge(r.self, [n_epochs |-> n_epochs])]

\* ---------------------------------------------------------------- from_v1
\* round() of an int is the int itself
round(x) == x

\* a / b, the quotient as the pair (numerator, denominator); the double nearest
\* to it truncates to the same integer for every |a| below 2^53
truediv(a, b) == <<a, b>>

\* variant: rounding to nearest in place of truncation
int_round_half_up(q) == (2 * q[1] + q[2]) \div (2 * q[2])

\* int() of a quotient truncates toward zero
int(q) ==
    LET abs(x) == IF x < 0 THEN -x ELSE x
        m == abs(q[1]) \div abs(q[2])
    IN IF (q[1] < 0) = (q[2] < 0) THEN m ELSE -m

\* variant: quantizer_config filtered out together with n_iter
v1_params_without_quantizer_config(config_v1) ==
    Restrict(config_v1, DOMAIN config_v1 \ {"n_iter", "quantizer_config"})

\* v1_params = {k: v for k, v in config_v1.__dict__.items() if k != 'n_iter'}
v1_params_of(config_v1) == Restrict(config_v1, DOMAIN config_v1 \ {"n_iter"})

\* GradientPTQConfigV2.from_v1(n_ptq_iter, config_v1), config_v1 the __dict__ of
\* the object passed
from_v1(n_ptq_iter, config_v1) ==
    IF config_v1.n_iter = None
    THEN [self |-> <<>>, errors |-> <<>>, exc |-> Some("TypeError")]
    ELSE IF n_ptq_iter = 0
    THEN [self |-> <<>>, errors |-> <<>>, exc |-> Some("ZeroDivisionError")]
    ELSE LET n_epochs == int(truediv(round(config_v1.n_iter[1]), n_ptq_iter))
             v1_params == v1_params_of(config_v1)
         IN IF "n_epochs" \in DOMAIN v1_params
            THEN [self |-> <<>>, errors |-> <<>>, exc |-> Some("TypeError")]
            ELSE GradientPTQConfigV2_init(
                     Some(n_epochs), v1_params.optimizer,
                     Restrict(v1_params, DOMAIN v1_params \ {"optimizer"}))

\* ----------------------------------------- get_extended_quantizer_parametes
\* variant: the two rounding types exchanged
get_extended_quantizer_parametes_swapped(self) ==
    IF self.rounding_type = "STE"
    THEN [N_BATCHES_STR |-> self.quantizer_config.n_batches,
          QUANT_PARAM_LEARNING_STR |-> self.quantization_parameters_learning,
          N_EPOCHS_STR |-> self.n_epochs]
    ELSE IF self.rounding_type = "SoftQuantizer"
    THEN [MAX_LSB_STR |-> self.lsb_change_per_bit_width]
    ELSE <<>>

get_extended_quantizer_parametes(self) ==
    IF self.rounding_type = "SoftQuantizer"
    THEN [N_BATCHES_STR |-> self.quantizer_config.n_batches,
          QUANT_PARAM_LEARNING_STR |-> self.quantization_parameters_learning,
          N_EPOCHS_STR |-> self.n_epochs]
    ELSE IF self.rounding_type = "STE"
    THEN [MAX_LSB_STR |-> self.lsb_change_per_bit_width]
    ELSE <<>>

\* ------------------------------------------------------------ class bodies
\* variant: every method defined in the base class
OwnMethods_base_defines_all(class) ==
    {"__init__", "_verify_quantizer_config", "from_v1",
     "get_extended_quantizer_parametes"}

\* the methods each class statement defines
OwnMethods(class) ==
    IF class = "GradientPTQConfig"
    THEN {"__init__", "_verify_quantizer_config"}
    ELSE {"__init__", "from_v1", "get_extended_quantizer_parametes"}

\* class GradientPTQConfigV2(GradientPTQConfig): attribute lookup follows the bases
HasMethod(class, m) ==
    \/ m \in OwnMethods(class)
    \/ class = "GradientPTQConfigV2" /\ m \in OwnMethods("GradientPTQConfig")

\* obj.get_extended_quantizer_parametes()
\* the attributes of self the method body reads on its way
AttrsRead(self) ==
    IF self.rounding_type = "SoftQuantizer"
    THEN {"rounding_type", "quantizer_config", "quantization_parameters_learning",
          "n_epochs"}
    ELSE IF self.rounding_type = "STE"
    THEN {"rounding_type", "lsb_change_per_bit_width"}
    ELSE {"rounding_type"}

\* obj.get_extended_quantizer_parametes(): the method is looked up on the class,
\* and reading an attribute the object does not have raises AttributeError
CallGetExtended(obj) ==
    IF /\ HasMethod(obj.class, "get_extended_quantizer_parametes")
       /\ AttrsRead(obj.attrs) \subseteq DOMAIN obj.attrs
    THEN [exc |-> None, ret |-> Some(get_extended_quantizer_parametes(obj.attrs))]
    ELSE [exc |-> Some("AttributeError"), ret |-> None]

\* ------------------------------------------- second moment correction test
\* A graph is a list of node objects; objects live in a heap, h.nodes (node id
\* to node) and h.graphs (graph id to its list of node ids), so that two graphs
\* may or may not share nodes.
BNWeights(gamma, beta, mean, variance) ==
    [GAMMA |-> gamma, BETA |-> beta, MOVING_MEAN |-> mean,
     MOVING_VARIANCE |-> variance]

Node(name, layer_class, weights) ==
    [name |-> name, layer_class |-> layer_class, weights |-> weights]

\* create_networks: Conv2D -> BatchNormalization blocks, then an Activation
FloatModel(n_bn, w, supported) == [n_bn |-> n_bn, bn |-> w, supported |-> supported]

\* KerasModelValidation(...).validate() raises on a model it does not accept
validate(model) == IF model.supported THEN None ELSE Some("Exception")

\* core_runner builds the graph of the model: one node per layer, named after it
core_runner(in_model) ==
    [i \in 1..(2 * in_model.n_bn + 1) |->
        IF i = 2 * in_model.n_bn + 1 THEN Node(<<"relu", 1>>, "Activation", <<>>)
        ELSE IF i % 2 = 1 THEN Node(<<"conv", (i + 1) \div 2>>, "Conv2D", <<>>)
        ELSE Node(<<"bn", i \div 2>>, "BatchNormalization", in_model.bn)]

\* a new graph object holding new node objects
NewGraph(h, node_list) ==
    [nodes |-> h.nodes \o node_list,
     graphs |-> Append(h.graphs, [i \in 1..Len(node_list) |-> Len(h.nodes) + i]),
     ref |-> Len(h.graphs) + 1]

\* variant: copy.copy(graph), a new graph sharing the node objects
copy_copy(h, g) ==
    [nodes |-> h.nodes, graphs |-> Append(h.graphs, h.graphs[g]),
     ref |-> Len(h.graphs) + 1]

\* copy.deepcopy(graph): a new graph whose nodes are copies
copy_deepcopy(h, g) ==
    NewGraph(h, [i \in 1..Len(h.graphs[g]) |-> h.nodes[h.graphs[g][i]]])

\* graph.nodes, as node objects
GraphNodes(h, g) == [i \in 1..Len(h.graphs[g]) |-> h.nodes[h.graphs[g][i]]]

\* graph.find_node_by_name(name): the list of the nodes with that name
find_node_by_name(h, g, name) ==
    SelectSeq(GraphNodes(h, g), LAMBDA n : n.name = name)

\* quantized_model_builder_for_second_moment_correction: a model with one layer
\* per node of the graph, each holding its own copy of the node's weights
quantized_model_builder_for_second_moment_correction(h, g) ==
    [graph |-> g, layers |-> GraphNodes(h, g)]

\* keras_apply_second_moment_correction: the batch-norm layers of the model see
\* the representative data, and every batch-norm node of the graph gets the
\* measured moving_mean and moving_variance; gamma and beta are not written
keras_apply_second_moment_correction(model, stats, h, g) ==
    [h EXCEPT !.nodes =
        [id \in 1..Len(h.nodes) |->
            IF /\ \E i \in 1..Len(h.graphs[g]) : h.graphs[g][i] = id
               /\ h.nodes[id].layer_class = "BatchNormalization"
            THEN [h.nodes[id] EXCEPT !.weights.MOVING_MEAN = stats.mean,
                                     !.weights.MOVING_VARIANCE = stats.variance]
            ELSE h.nodes[id]]]

\* variant: the correction called before the model is built
PrepareGraphStages_correct_before_build ==
    <<"validate", "core_runner", "deepcopy", "apply_second_moment_correction",
      "build_semi_quantized_model", "return">>

\* variant: the correction never called
PrepareGraphStages_no_correction ==
    <<"validate", "core_runner", "deepcopy", "build_semi_quantized_model", "return">>

\* the statements of prepare_graph, in program order
PrepareGraphStages ==
    <<"validate", "core_runner", "deepcopy", "build_semi_quantized_model",
      "apply_second_moment_correction", "return">>

\* ------------------------------------------------ get_quantization_dispatcher
\* a node as the dispatcher builder reads it
BaseNode(type, weights_enabled, activation_enabled, output_shape) ==
    [type |-> type,
     weights_quantization_enabled |-> weights_enabled,
     activation_quantization_enabled |-> activation_enabled,
     output_shape |-> output_shape]

is_weights_quantization_enabled(node) == node.weights_quantization_enabled

is_activation_quantization_enabled(node) == node.activation_quantization_enabled

\* DEFAULT_KERAS_INFO.get_kernel_op_attributes(node.type): the list of kernel
\* attribute names declared for the layer type
get_kernel_op_attributes(type) ==
    IF type = "Conv2D" THEN <<"kernel">>
    ELSE IF type = "DepthwiseConv2D" THEN <<"depthwise_kernel">>
    ELSE IF type = "SeparableConv2D" THEN <<"depthwise_kernel", "pointwise_kernel">>
    ELSE <<>>

\* each call of a getter builds a new quantizer object: k is the ordinal of the
\* call within one get_quantization_dispatcher
get_weights_quantizer_for_node(node, k) ==
    [quantizes |-> "weights", node_type |-> node.type, object |-> k]

get_activations_quantizer_for_node(node, k) ==
    [quantizes |-> "activation", node_type |-> node.type, object |-> k]

\* len(x) of a tuple (its dims) or a list (its items)
len(x) == IF x.kind = "tuple" THEN Len(x.dims) ELSE Len(x.items)

isinstance_list(x) == x.kind = "list"

\* variant: the first if statement tests the activation flag
weight_quantizers_by_activation_flag(node) ==
    IF is_activation_quantization_enabled(node)
    THEN LET weight_attrs == get_kernel_op_attributes(node.type)
             weight_quantizer == get_weights_quantizer_for_node(node, 1)
         IN [attr \in {weight_attrs[i] : i \in 1..Len(weight_attrs)} |->
                weight_quantizer]
    ELSE <<>>

\* weight_quantizers, after the first if statement
weight_quantizers_of(node) ==
    IF is_weights_quantization_enabled(node)
    THEN LET weight_attrs == get_kernel_op_attributes(node.type)
             weight_quantizer == get_weights_quantizer_for_node(node, 1)
         IN [attr \in {weight_attrs[i] : i \in 1..Len(weight_attrs)} |->
                weight_quantizer]
    ELSE <<>>

\* variant: len(node.output_shape) without the isinstance test
activation_quantizers_len_unchecked(node) ==
    IF is_activation_quantization_enabled(node)
    THEN LET num_of_outputs == len(node.output_shape)
         IN [i \in 1..num_of_outputs |-> get_activations_quantizer_for_node(node, 1)]
    ELSE <<>>

\* activation_quantizers, after the second if statement
activation_quantizers_of(node) ==
    IF is_activation_quantization_enabled(node)
    THEN LET num_of_outputs == IF isinstance_list(node.output_shape)
                               THEN len(node.output_shape) ELSE 1
         IN [i \in 1..num_of_outputs |-> get_activations_quantizer_for_node(node, 1)]
    ELSE <<>>

\* qi.KerasNodeQuantizationDispatcher(weight_quantizers, activation_quantizers)
get_quantization_dispatcher(node) ==
    [weight_quantizers |-> weight_quantizers_of(node),
     activation_quantizers |-> activation_quantizers_of(node)]

\* ------------------------------------------------------------------- state
VARIABLES
    config,      \* the config the caller constructed: None or <<object>>
    converted,   \* the result of from_v1 on it: None or <<object>>
    last,        \* the most recent call: what was called, with what, the outcome
    pc,          \* run_test: "idle", "prepare_graph", "raised", "returned", "done"
    stmt,        \* in prepare_graph: the index of its next statement
    in_model,    \* the float model of create_networks: None or <<model>>
    data_stats,  \* mean and variance of what the batch-norm layers are fed
    heap,        \* the graph and node objects
    tg,          \* prepare_graph's tg: 0 (unbound) or a graph id
    graph_to_apply_second_moment,   \* 0 (unbound) or a graph id
    semi_quantized_model,           \* None or <<model>>
    stages,      \* history: the statements of prepare_graph started so far
    tg_returned, \* history: tg's nodes as core_runner returned them
    assertions,  \* run_test: the outcome of the assertions, per batch-norm node
    dispatched,  \* the latest get_quantization_dispatcher call: None or
                 \* <<[node, dispatcher]>>
    dispatched_before,  \* the call before it
    other,       \* a second config, built with every keyword argument left
                 \* out: None or <<object>>
    dicts        \* the known_dict of each DefaultDict object

cfgVars == <<config, converted, last, other, dicts>>

graphVars == <<pc, stmt, in_model, data_stats, heap, tg, graph_to_apply_second_moment,
               semi_quantized_model, stages, tg_returned, assertions>>

dispVars == <<dispatched, dispatched_before>>

vars == <<cfgVars, graphVars, dispVars>>

Object(class, attrs) == [class |-> class, attrs |-> attrs]

\* ------------------------------------------------------------- call inputs
NIters == (0..MaxIter) \cup {500}

NPtqIters == (0..MaxPtqIter) \cup {10}

NBatches == {None} \cup {Some(n) : n \in 1..MaxBatches}

QuantizerConfigs ==
    {QuantizerConfigObject("SoftQuantizerConfig", n) : n \in NBatches}
    \cup {QuantizerConfigObject("GPTQQuantizerConfig", None),
          QuantizerConfigObject("SubSoftQuantizerConfig", None)}

\* values for the remaining keyword arguments, all different from the defaults
CustomKw ==
    [optimizer_rest |-> Some("opt_rest"),
     loss |-> Some("loss_fn"),
     log_function |-> Some("log_fn"),
     train_bias |-> FALSE,
     eps |-> "1e-3",
     use_jac_based_weights |-> FALSE,
     num_samples_for_loss |-> 8,
     norm_weights |-> TRUE,
     optimizer_quantization_parameter |-> Some("opt_qp"),
     optimizer_bias |-> Some("opt_bias"),
     log_norm |-> FALSE,
     weights_n_iter |-> 10]

\* the keyword arguments a caller passes: none at all, or the custom values
\* together with any of the four arguments the checks read
KwChoices ==
    {<<>>} \cup
    {Merge(CustomKw, Merge(rt, Merge(qc, Merge(qpl, lsb)))) :
        rt \in {<<>>} \cup {[rounding_type |-> v] : v \in RoundingType \cup {"None"}},
        qc \in {<<>>} \cup {[quantizer_config |-> v] : v \in QuantizerConfigs},
        qpl \in {<<>>} \cup {[quantization_parameters_learning |-> v] : v \in BOOLEAN},
        lsb \in {<<>>} \cup {[lsb_change_per_bit_width |-> "DefaultDict_user"]}}

BitWidths == 1..MaxBitWidth

\* the value a caller writes as an override, different from the fallback
LsbOverrides == {2}

InitCall(op, n, kw, defaults, r) ==
    [op |-> op,
     n |-> n,
     kw |-> kw,
     rounding_type |-> Arg(kw, defaults, "rounding_type"),
     quantizer_config |-> Arg(kw, defaults, "quantizer_config"),
     quantization_parameters_learning |->
         Arg(kw, defaults, "quantization_parameters_learning"),
     errors |-> r.errors,
     exc |-> r.exc]

\* ----------------------------------------------------------------- actions
Init ==
    /\ config = None
    /\ converted = None
    /\ last = [op |-> "none"]
    /\ pc = "idle"
    /\ stmt = 0
    /\ in_model = None
    /\ data_stats = None
    /\ heap = [nodes |-> <<>>, graphs |-> <<>>]
    /\ tg = 0
    /\ graph_to_apply_second_moment = 0
    /\ semi_quantized_model = None
    /\ stages = <<>>
    /\ tg_returned = <<>>
    /\ assertions = <<>>
    /\ dispatched = None
    /\ dispatched_before = None
    /\ other = None
    /\ dicts = [d \in DefaultDictObjects |-> {}]

\* the exception that left the latest constructor call is not caught: the run
\* has ended
ConstructionRaised ==
    /\ last.op \in {"GradientPTQConfig", "GradientPTQConfigV2"}
    /\ last.exc # None

\* config = GradientPTQConfig(n_iter, optimizer, **kw); a caller builds its
\* config once
NewGradientPTQConfig ==
    /\ config = None
    /\ ~ConstructionRaised
    /\ \E n \in NIters, kw \in KwChoices :
        LET r == GradientPTQConfig_init(Some(n), "opt", kw, V1Defaults)
        IN /\ config' = IF r.exc = None
                        THEN Some(Object("GradientPTQConfig", r.self)) ELSE None
           /\ last' = InitCall("GradientPTQConfig", n, kw, V1Defaults, r)
    /\ UNCHANGED <<converted, other, dicts, graphVars, dispVars>>

\* config = GradientPTQConfigV2(n_epochs, optimizer, **kw)
NewGradientPTQConfigV2 ==
    /\ config = None
    /\ ~ConstructionRaised
    /\ \E n \in NIters, kw \in KwChoices :
        LET r == GradientPTQConfigV2_init(Some(n), "opt", kw)
        IN /\ config' = IF r.exc = None
                        THEN Some(Object("GradientPTQConfigV2", r.self)) ELSE None
           /\ last' = InitCall("GradientPTQConfigV2", n, kw, V2Defaults, r)
    /\ UNCHANGED <<converted, other, dicts, graphVars, dispVars>>

\* converted = GradientPTQConfigV2.from_v1(n_ptq_iter, config)
FromV1 ==
    /\ config # None
    /\ \E n \in NPtqIters :
        LET r == from_v1(n, config[1].attrs)
        IN /\ converted' = IF r.exc = None
                           THEN Some(Object("GradientPTQConfigV2", r.self)) ELSE None
           /\ last' = [op |-> "from_v1", n_ptq_iter |-> n,
                       config_v1_before |-> config[1], errors |-> r.errors,
                       exc |-> r.exc]
    /\ UNCHANGED <<config, other, dicts, graphVars, dispVars>>

\* params = config.get_extended_quantizer_parametes(), or the same on converted
GetExtended ==
    /\ \E target \in {"config", "converted"} :
        LET holder == IF target = "config" THEN config ELSE converted
        IN /\ holder # None
           /\ LET r == CallGetExtended(holder[1])
              IN last' = [op |-> "get_extended_quantizer_parametes",
                          target |-> target, self_before |-> holder[1],
                          exc |-> r.exc, ret |-> r.ret]
    /\ UNCHANGED <<config, converted, other, dicts, graphVars, dispVars>>

\* other = GradientPTQConfig(n, optimizer) or GradientPTQConfigV2(n, optimizer):
\* a further config built with every keyword argument left at its default
NewDefaultConfig ==
    /\ other = None
    /\ ~ConstructionRaised
    /\ \E class \in {"GradientPTQConfig", "GradientPTQConfigV2"} :
        LET r == IF class = "GradientPTQConfig"
                 THEN GradientPTQConfig_init(Some(MaxIter), "opt", <<>>, V1Defaults)
                 ELSE GradientPTQConfigV2_init(Some(MaxIter), "opt", <<>>)
        IN /\ r.exc = None
           /\ other' = Some(Object(class, r.self))
           /\ last' = [op |-> "default_construction", class |-> class]
    /\ UNCHANGED <<config, converted, dicts, graphVars, dispVars>>

\* config.lsb_change_per_bit_width[bit_width] = value: an override written
\* into the mapping that config holds
OverrideLsb ==
    /\ config # None
    /\ \E b \in BitWidths, v \in LsbOverrides :
        LET d == config[1].attrs.lsb_change_per_bit_width
        IN /\ dicts' = [dicts EXCEPT ![d] = DefaultDict_set(dicts[d], b, v)]
           /\ last' = [op |-> "override", bit_width |-> b, value |-> v]
    /\ UNCHANGED <<config, converted, other, graphVars, dispVars>>

NextConfig ==
    \/ NewGradientPTQConfig
    \/ NewGradientPTQConfigV2
    \/ FromV1
    \/ GetExtended
    \/ NewDefaultConfig
    \/ OverrideLsb

Spec == Init /\ [][NextConfig]_vars

\* ------------------------------------------- run_test and prepare_graph
\* run_test: create_networks, the representative data, and the call of
\* prepare_graph
CreateNetworks ==
    /\ pc = "idle"
    /\ \E n \in 1..MaxBN, gamma \in 1..2, beta \in 0..1,
          mean \in 0..MaxStat, variance \in 1..MaxStat,
          m \in 0..MaxStat, v \in 0..MaxStat, supported \in BOOLEAN :
        /\ in_model' = Some(FloatModel(n, BNWeights(gamma, beta, mean, variance),
                                       supported))
        /\ data_stats' = Some([mean |-> m, variance |-> v])
    /\ pc' = "prepare_graph"
    /\ stmt' = 1
    /\ UNCHANGED <<heap, tg, graph_to_apply_second_moment, semi_quantized_model,
                   stages, tg_returned, assertions, cfgVars, dispVars>>

AtStage(name) ==
    /\ pc = "prepare_graph"
    /\ stmt \in 1..Len(PrepareGraphStages)
    /\ PrepareGraphStages[stmt] = name
    /\ stages' = Append(stages, name)

\* KerasModelValidation(model=in_model, fw_info=fw_info).validate()
Validate ==
    /\ AtStage("validate")
    /\ IF validate(in_model[1]) = None
       THEN pc' = pc /\ stmt' = stmt + 1
       ELSE pc' = "raised" /\ stmt' = stmt
    /\ UNCHANGED <<in_model, data_stats, heap, tg, graph_to_apply_second_moment,
                   semi_quantized_model, tg_returned, assertions, cfgVars, dispVars>>

\* tg, bit_widths_config = core_runner(in_model=in_model, ...)
CoreRunner ==
    /\ AtStage("core_runner")
    /\ LET r == NewGraph(heap, core_runner(in_model[1]))
       IN /\ heap' = [nodes |-> r.nodes, graphs |-> r.graphs]
          /\ tg' = r.ref
          /\ tg_returned' = core_runner(in_model[1])
    /\ stmt' = stmt + 1
    /\ UNCHANGED <<pc, in_model, data_stats, graph_to_apply_second_moment,
                   semi_quantized_model, assertions, cfgVars, dispVars>>

\* graph_to_apply_second_moment = copy.deepcopy(tg)
DeepCopy ==
    /\ AtStage("deepcopy")
    /\ IF tg = 0
       THEN pc' = "raised" /\ UNCHANGED <<stmt, heap, graph_to_apply_second_moment>>
       ELSE LET r == copy_deepcopy(heap, tg)
            IN /\ heap' = [nodes |-> r.nodes, graphs |-> r.graphs]
               /\ graph_to_apply_second_moment' = r.ref
               /\ stmt' = stmt + 1
               /\ pc' = pc
    /\ UNCHANGED <<in_model, data_stats, tg, semi_quantized_model, tg_returned,
                   assertions, cfgVars, dispVars>>

\* semi_quantized_model = quantized_model_builder_for_second_moment_correction(...)
BuildSemiQuantizedModel ==
    /\ AtStage("build_semi_quantized_model")
    /\ IF graph_to_apply_second_moment = 0
       THEN pc' = "raised" /\ UNCHANGED <<stmt, semi_quantized_model>>
       ELSE /\ semi_quantized_model' =
                   Some(quantized_model_builder_for_second_moment_correction(
                            heap, graph_to_apply_second_moment))
            /\ stmt' = stmt + 1
            /\ pc' = pc
    /\ UNCHANGED <<in_model, data_stats, heap, tg, graph_to_apply_second_moment,
                   tg_returned, assertions, cfgVars, dispVars>>

\* keras_apply_second_moment_correction(semi_quantized_model, core_config,
\*     representative_data_gen, graph_to_apply_second_moment)
ApplySecondMomentCorrection ==
    /\ AtStage("apply_second_moment_correction")
    /\ IF semi_quantized_model = None \/ graph_to_apply_second_moment = 0
       THEN pc' = "raised" /\ UNCHANGED <<stmt, heap>>
       ELSE /\ heap' = keras_apply_second_moment_correction(
                           semi_quantized_model[1], data_stats[1], heap,
                           graph_to_apply_second_moment)
            /\ stmt' = stmt + 1
            /\ pc' = pc
    /\ UNCHANGED <<in_model, data_stats, tg, graph_to_apply_second_moment,
                   semi_quantized_model, tg_returned, assertions, cfgVars, dispVars>>

\* return tg, graph_to_apply_second_moment
Return ==
    /\ AtStage("return")
    /\ pc' = IF tg = 0 \/ graph_to_apply_second_moment = 0 THEN "raised"
             ELSE "returned"
    /\ UNCHANGED <<stmt, in_model, data_stats, heap, tg,
                   graph_to_apply_second_moment, semi_quantized_model,
                   tg_returned, assertions, cfgVars, dispVars>>

\* run_test's loop over graph_after_second_moment_correction.nodes: what each
\* assertTrue / assertFalse is given, per batch-norm node
BNComparisons ==
    LET after == SelectSeq(GraphNodes(heap, graph_to_apply_second_moment),
                           LAMBDA n : n.layer_class = "BatchNormalization")
    IN [i \in 1..Len(after) |->
          LET found == find_node_by_name(heap, tg, after[i].name)
          IN IF found = <<>> THEN [IndexError |-> TRUE]
             ELSE LET w0 == found[1].weights
                      w1 == after[i].weights
                  IN [gamma_equal |-> w0.GAMMA = w1.GAMMA,
                      beta_equal |-> w0.BETA = w1.BETA,
                      moving_mean_equal |-> w0.MOVING_MEAN = w1.MOVING_MEAN,
                      moving_variance_equal |->
                          w0.MOVING_VARIANCE = w1.MOVING_VARIANCE]]

RunTestAssertions ==
    /\ pc = "returned"
    /\ assertions' = BNComparisons
    /\ pc' = "done"
    /\ UNCHANGED <<stmt, in_model, data_stats, heap, tg,
                   graph_to_apply_second_moment, semi_quantized_model, stages,
                   tg_returned, cfgVars, dispVars>>

NextGraph ==
    \/ CreateNetworks
    \/ Validate
    \/ CoreRunner
    \/ DeepCopy
    \/ BuildSemiQuantizedModel
    \/ ApplySecondMomentCorrection
    \/ Return
    \/ RunTestAssertions

SpecGraph == Init /\ [][NextGraph]_vars

\* ------------------------------------------------ building dispatchers
OutputShapes ==
    {[kind |-> "tuple", dims |-> <<"None", "8", "8">>]}
    \cup {[kind |-> "list", items |-> [i \in 1..n |-> <<"None", "8">>]] :
             n \in 0..MaxOutputs}

BaseNodes ==
    {BaseNode(t, w, a, o) :
        t \in {"Conv2D", "DepthwiseConv2D", "SeparableConv2D", "ReLU"},
        w \in BOOLEAN, a \in BOOLEAN, o \in OutputShapes}

\* dispatcher = get_quantization_dispatcher(node)
GetQuantizationDispatcher ==
    /\ \E node \in BaseNodes :
        dispatched' = Some([node |-> node,
                            dispatcher |-> get_quantization_dispatcher(node)])
    /\ dispatched_before' = dispatched
    /\ UNCHANGED <<cfgVars, graphVars>>

NextDispatch == GetQuantizationDispatcher

SpecDispatch == Init /\ [][NextDispatch]_vars

\* ============================================================== properties
IsInitCall == last.op \in {"GradientPTQConfig", "GradientPTQConfigV2"}

\* the config objects the caller holds
Held ==
    {config[i] : i \in DOMAIN config} \cup {converted[i] : i \in DOMAIN converted}
    \cup {other[i] : i \in DOMAIN other}

\* a pair whose types mismatch: SoftQuantizer rounding without a
\* SoftQuantizerConfig, STE rounding without a plain GPTQQuantizerConfig
TypesMismatch(rounding_type, quantizer_config) ==
    \/ /\ rounding_type = "SoftQuantizer"
       /\ quantizer_config.type \notin {"SoftQuantizerConfig", "SubSoftQuantizerConfig"}
    \/ /\ rounding_type = "STE"
       /\ quantizer_config.type # "GPTQQuantizerConfig"

\* C1: a construction of either generation with a mismatched (rounding_type,
\* quantizer_config) pair hands a message to Logger.error, and no config object
\* the caller holds has a quantizer_config attribute that mismatches its
\* rounding_type.
C1_MismatchReported ==
    /\ (IsInitCall /\ TypesMismatch(last.rounding_type, last.quantizer_config))
           => last.errors # <<>>
    /\ \A o \in Held :
           "quantizer_config" \in DOMAIN o.attrs
               => ~TypesMismatch(o.attrs.rounding_type, o.attrs.quantizer_config)

C1_Witness ==
    /\ last.op = "GradientPTQConfigV2"
    /\ last.rounding_type = "STE"
    /\ last.quantizer_config.type = "SoftQuantizerConfig"
    /\ ~last.quantization_parameters_learning
    /\ last.errors = <<"quantizer_config_unsuitable">>
    /\ config = None

\* C2: a construction of either generation with
\* quantization_parameters_learning=True and rounding_type=STE reports the error
\* inside __init__ and leaves it by an exception, so the caller gets no object;
\* no config object the caller holds has both.
C2_QplWithSteRejected ==
    /\ (IsInitCall /\ last.quantization_parameters_learning
            /\ last.rounding_type = "STE")
           => /\ last.errors = <<"qpl_with_ste">>
              /\ last.exc # None
              /\ config = None
    /\ \A o \in Held :
           ~(o.attrs.quantization_parameters_learning /\ o.attrs.rounding_type = "STE")

C2_Witness ==
    /\ last.op = "GradientPTQConfig"
    /\ last.quantization_parameters_learning
    /\ last.rounding_type = "STE"
    /\ last.quantizer_config.type = "GPTQQuantizerConfig"
    /\ last.exc = Some("Exception")

\* C3: from_v1(n_ptq_iter, config_v1) with n_iter >= 0 and n_ptq_iter >= 1
\* returns a config whose n_epochs is n_iter / n_ptq_iter truncated:
\* n_epochs * n_ptq_iter <= n_iter < (n_epochs + 1) * n_ptq_iter; 500 and 10
\* give 50; n_iter < n_ptq_iter gives 0.
C3_EpochsTruncatedQuotient ==
    (/\ last.op = "from_v1"
     /\ config[1].class = "GradientPTQConfig"
     /\ last.n_ptq_iter >= 1)
        => /\ last.exc = None
           /\ converted # None
           /\ LET n_iter == config[1].attrs.n_iter[1]
                  n_ptq_iter == last.n_ptq_iter
                  n_epochs == converted[1].attrs.n_epochs[1]
              IN /\ n_epochs * n_ptq_iter <= n_iter
                 /\ n_iter < (n_epochs + 1) * n_ptq_iter
                 /\ (n_iter = 500 /\ n_ptq_iter = 10) => n_epochs = 50
                 /\ n_iter < n_ptq_iter => n_epochs = 0

C3_Witness ==
    /\ last.op = "from_v1"
    /\ config[1].class = "GradientPTQConfig"
    /\ config[1].attrs.n_iter = Some(500)
    /\ last.n_ptq_iter = 10
    /\ converted # None
    /\ converted[1].attrs.n_epochs = Some(50)

\* the batch-norm nodes of a list of nodes
BNNodes(node_list) ==
    SelectSeq(node_list, LAMBDA n : n.layer_class = "BatchNormalization")

\* C4: once prepare_graph has applied the correction, every batch-norm node of
\* the corrected graph has the gamma and beta the node had when core_runner
\* returned, and its moving_mean (moving_variance) is the measured one, which
\* differs from the value before whenever the measured statistic differs from
\* it; run_test's comparisons see the same.
C4_GammaBetaKeptMovingStatsOverwritten ==
    /\ pc \in {"returned", "done"} =>
          LET before == BNNodes(tg_returned)
              after == BNNodes(GraphNodes(heap, graph_to_apply_second_moment))
          IN /\ Len(after) = Len(before)
             /\ \A i \in 1..Len(after) :
                   LET w0 == before[i].weights
                       w1 == after[i].weights
                   IN /\ w1.GAMMA = w0.GAMMA
                      /\ w1.BETA = w0.BETA
                      /\ w1.MOVING_MEAN = data_stats[1].mean
                      /\ w1.MOVING_VARIANCE = data_stats[1].variance
                      /\ data_stats[1].mean # w0.MOVING_MEAN
                             => w1.MOVING_MEAN # w0.MOVING_MEAN
                      /\ data_stats[1].variance # w0.MOVING_VARIANCE
                             => w1.MOVING_VARIANCE # w0.MOVING_VARIANCE
    /\ pc = "done" =>
          \A i \in 1..Len(assertions) :
              /\ "IndexError" \notin DOMAIN assertions[i]
              /\ assertions[i].gamma_equal
              /\ assertions[i].beta_equal
              /\ data_stats[1].mean # in_model[1].bn.MOVING_MEAN
                     => ~assertions[i].moving_mean_equal
              /\ data_stats[1].variance # in_model[1].bn.MOVING_VARIANCE
                     => ~assertions[i].moving_variance_equal

C4_Witness ==
    /\ pc = "done"
    /\ Len(assertions) = 2
    /\ data_stats[1].mean # in_model[1].bn.MOVING_MEAN
    /\ data_stats[1].variance # in_model[1].bn.MOVING_VARIANCE
    /\ \A i \in 1..Len(assertions) :
          /\ assertions[i].gamma_equal
          /\ ~assertions[i].moving_mean_equal
          /\ ~assertions[i].moving_variance_equal

\* C5: the correction runs on a deep copy: after it, the graph tg still holds
\* the nodes core_runner returned (pre-correction gamma, beta, moving_mean,
\* moving_variance), tg and the corrected graph share no node object, and every
\* batch-norm node of the corrected graph is found by name in tg.
C5_OriginalGraphUnchanged ==
    (pc \in {"returned", "done"}) =>
        /\ GraphNodes(heap, tg) = tg_returned
        /\ tg # graph_to_apply_second_moment
        /\ \A i \in 1..Len(heap.graphs[tg]) :
              \A j \in 1..Len(heap.graphs[graph_to_apply_second_moment]) :
                  heap.graphs[tg][i] # heap.graphs[graph_to_apply_second_moment][j]
        /\ LET after == BNNodes(GraphNodes(heap, graph_to_apply_second_moment))
           IN \A i \in 1..Len(after) :
                 find_node_by_name(heap, tg, after[i].name) # <<>>

C5_Witness ==
    /\ pc = "returned"
    /\ GraphNodes(heap, tg) = tg_returned
    /\ GraphNodes(heap, graph_to_apply_second_moment) # tg_returned
    /\ find_node_by_name(heap, tg, <<"bn", 2>>) # <<>>

\* C6: get_extended_quantizer_parametes returns, for SoftQuantizer, exactly
\* the entries n_batches (quantizer_config.n_batches), the
\* quantization_parameters_learning flag and n_epochs; for STE exactly the
\* lsb_change_per_bit_width entry; for any other rounding type the empty
\* dictionary; and the config is as it was before the call.
C6_ParametersByRoundingType ==
    (last.op = "get_extended_quantizer_parametes" /\ last.exc = None) =>
        LET holder == IF last.target = "config" THEN config[1] ELSE converted[1]
            self == holder.attrs
            ret == last.ret[1]
        IN /\ holder = last.self_before
           /\ self.rounding_type = "SoftQuantizer" =>
                 /\ DOMAIN ret = {"N_BATCHES_STR", "QUANT_PARAM_LEARNING_STR",
                                  "N_EPOCHS_STR"}
                 /\ ret.N_BATCHES_STR = self.quantizer_config.n_batches
                 /\ ret.QUANT_PARAM_LEARNING_STR = self.quantization_parameters_learning
                 /\ ret.N_EPOCHS_STR = self.n_epochs
           /\ self.rounding_type = "STE" =>
                 /\ DOMAIN ret = {"MAX_LSB_STR"}
                 /\ ret.MAX_LSB_STR = self.lsb_change_per_bit_width
           /\ self.rounding_type \notin {"SoftQuantizer", "STE"} => DOMAIN ret = {}

C6_Witness ==
    /\ last.op = "get_extended_quantizer_parametes"
    /\ last.target = "converted"
    /\ last.exc = None
    /\ DOMAIN last.ret[1] = {"N_BATCHES_STR", "QUANT_PARAM_LEARNING_STR",
                             "N_EPOCHS_STR"}
    /\ last.ret[1].N_BATCHES_STR = Some(1)
    /\ last.ret[1].QUANT_PARAM_LEARNING_STR
    /\ last.ret[1].N_EPOCHS_STR = Some(50)

\* C7 as stated: calling the method on a constructed instance of either
\* generation returns a dictionary rather than failing.
C7_BothGenerationsExposeMethod ==
    last.op = "get_extended_quantizer_parametes" =>
        /\ last.exc = None
        /\ last.ret # None

\* C7, amended: only GradientPTQConfigV2 has the method. On a constructed
\* GradientPTQConfigV2 (built directly or by from_v1) the call returns a
\* dictionary; on a GradientPTQConfig it raises AttributeError.
C7_OnlyV2ExposesMethod ==
    last.op = "get_extended_quantizer_parametes" =>
        LET holder == IF last.target = "config" THEN config[1] ELSE converted[1]
        IN /\ holder.class = "GradientPTQConfigV2"
                 => last.exc = None /\ last.ret # None
           /\ holder.class = "GradientPTQConfig"
                 => last.exc = Some("AttributeError") /\ last.ret = None

C7_Witness ==
    /\ last.op = "get_extended_quantizer_parametes"
    /\ last.target = "config"
    /\ config[1].class = "GradientPTQConfig"
    /\ config[1].attrs.rounding_type = "None"
    /\ last.exc = Some("AttributeError")

IsPrefix(s, t) == Len(s) <= Len(t) /\ \A i \in 1..Len(s) : s[i] = t[i]

\* C8: the statements of prepare_graph start one at a time in the order
\* validate, core_runner, deepcopy, build the semi-quantized model, second
\* moment correction, return; core_runner does not start when validation
\* raises; the copy exists only once core_runner has returned tg, the
\* semi-quantized model is built from the copy, and the correction has started
\* only with the model built.
C8_StagesInSequence ==
    /\ IsPrefix(stages, <<"validate", "core_runner", "deepcopy",
                          "build_semi_quantized_model",
                          "apply_second_moment_correction", "return">>)
    /\ (pc = "prepare_graph") => Len(stages) = stmt - 1
    /\ (pc = "raised") => stages = <<"validate">> /\ tg = 0
    /\ (graph_to_apply_second_moment # 0) => tg # 0
    /\ (semi_quantized_model # None) =>
           /\ graph_to_apply_second_moment # 0
           /\ semi_quantized_model[1].graph = graph_to_apply_second_moment
    /\ (\E i \in 1..Len(stages) : stages[i] = "apply_second_moment_correction")
           => semi_quantized_model # None /\ tg # 0

C8_Witness ==
    /\ pc = "done"
    /\ Len(stages) = 6
    /\ stages[5] = "apply_second_moment_correction"
    /\ semi_quantized_model # None

Dispatched ==
    {dispatched[i] : i \in DOMAIN dispatched}
    \cup {dispatched_before[i] : i \in DOMAIN dispatched_before}

SeqRange(s) == {s[i] : i \in 1..Len(s)}

\* C9: the dispatcher's weight quantizers are empty when the node's weights
\* quantization is disabled; when enabled, their keys are the kernel attributes
\* declared for node.type and every key maps to the one weights quantizer got
\* for the node; two nodes that differ only in the activation flag get the same
\* weight quantizers.
C9_WeightQuantizersFromWeightsFlag ==
    /\ \A d \in Dispatched :
          LET wq == d.dispatcher.weight_quantizers
          IN /\ ~d.node.weights_quantization_enabled => DOMAIN wq = {}
             /\ d.node.weights_quantization_enabled =>
                   /\ DOMAIN wq = SeqRange(get_kernel_op_attributes(d.node.type))
                   /\ \A k \in DOMAIN wq :
                         wq[k] = get_weights_quantizer_for_node(d.node, 1)
    /\ \A d1 \in Dispatched, d2 \in Dispatched :
          (d1.node = [d2.node EXCEPT !.activation_quantization_enabled = ~@])
              => /\ DOMAIN d1.dispatcher.weight_quantizers
                      = DOMAIN d2.dispatcher.weight_quantizers
                 /\ \A k \in DOMAIN d1.dispatcher.weight_quantizers :
                       d1.dispatcher.weight_quantizers[k]
                           = d2.dispatcher.weight_quantizers[k]

C9_Witness ==
    /\ dispatched # None
    /\ dispatched_before # None
    /\ dispatched[1].node.type = "SeparableConv2D"
    /\ dispatched[1].node.weights_quantization_enabled
    /\ ~dispatched[1].node.activation_quantization_enabled
    /\ dispatched_before[1].node
           = [dispatched[1].node EXCEPT !.activation_quantization_enabled = TRUE]
    /\ DOMAIN dispatched[1].dispatcher.weight_quantizers
           = {"depthwise_kernel", "pointwise_kernel"}

\* C10: the dispatcher's activation quantizers are empty when the node's
\* activation quantization is disabled; when enabled, there is one entry per
\* output (len(output_shape) for a list, otherwise 1), all the same quantizer;
\* two nodes that differ only in the weights flag get the same list.
C10_ActivationQuantizersFromActivationFlag ==
    /\ \A d \in Dispatched :
          LET aq == d.dispatcher.activation_quantizers
          IN /\ ~d.node.activation_quantization_enabled => Len(aq) = 0
             /\ d.node.activation_quantization_enabled =>
                   /\ Len(aq) = IF d.node.output_shape.kind = "list"
                                THEN Len(d.node.output_shape.items) ELSE 1
                   /\ \A i \in 1..Len(aq) :
                         aq[i] = get_activations_quantizer_for_node(d.node, 1)
    /\ \A d1 \in Dispatched, d2 \in Dispatched :
          (d1.node = [d2.node EXCEPT !.weights_quantization_enabled = ~@])
              => d1.dispatcher.activation_quantizers
                     = d2.dispatcher.activation_quantizers

C10_Witness ==
    /\ dispatched # None
    /\ dispatched_before # None
    /\ dispatched[1].node.activation_quantization_enabled
    /\ ~dispatched[1].node.weights_quantization_enabled
    /\ dispatched[1].node.output_shape.kind = "list"
    /\ Len(dispatched[1].dispatcher.activation_quantizers) = 2
    /\ dispatched_before[1].node.output_shape.kind = "tuple"
    /\ dispatched_before[1].node.activation_quantization_enabled
    /\ Len(dispatched_before[1].dispatcher.activation_quantizers) = 1

\* the (rounding_type, quantizer_config) pair of the latest constructor call
\* matches by exact type
ExactTypeMatch ==
    IF last.rounding_type = "SoftQuantizer"
    THEN last.quantizer_config.type = "SoftQuantizerConfig"
    ELSE last.quantizer_config.type = "GPTQQuantizerConfig"

\* the latest constructor call returned an object without reporting an error
Accepted == last.exc = None /\ last.errors = <<>> /\ config # None

\* C11: whether a construction is accepted is decided by the exact type of
\* quantizer_config: apart from the quantization_parameters_learning/STE check,
\* a call is accepted exactly when the type is SoftQuantizerConfig itself under
\* SoftQuantizer rounding and GPTQQuantizerConfig itself under any other
\* rounding; every other call reports the unsuitable quantizer_config and
\* yields no object that holds it. So an instance of a subclass of the matching type is
\* rejected, and so is rounding_type=STE with quantizer_config left at its
\* default.
C11_ExactTypeDecides ==
    (IsInitCall /\ ~QplSteConflict(last.quantization_parameters_learning,
                                   last.rounding_type))
    => /\ Accepted <=> ExactTypeMatch
       /\ ~ExactTypeMatch
          => /\ last.errors = <<"quantizer_config_unsuitable">>
             /\ \A i \in DOMAIN config : "quantizer_config" \notin DOMAIN config[i].attrs
       /\ (/\ last.rounding_type = "SoftQuantizer"
           /\ last.quantizer_config.type = "SubSoftQuantizerConfig") => ~Accepted
       /\ (/\ last.rounding_type = "STE"
           /\ "quantizer_config" \notin DOMAIN last.kw) => ~Accepted

C11_Witness ==
    /\ last.op = "GradientPTQConfig"
    /\ last.rounding_type = "SoftQuantizer"
    /\ last.quantizer_config.type = "SubSoftQuantizerConfig"
    /\ last.errors = <<"quantizer_config_unsuitable">>
    /\ \A i \in DOMAIN config : "quantizer_config" \notin DOMAIN config[i].attrs

\* the value the latest constructor call passed for parameter k: the keyword
\* argument, or the default of the signature of the class called
Passed(k) ==
    Arg(last.kw, IF last.op = "GradientPTQConfig" THEN V1Defaults ELSE V2Defaults, k)

\* C12: a construction with a matching pair, (SoftQuantizer,
\* SoftQuantizerConfig) or (STE, GPTQQuantizerConfig) with
\* quantization_parameters_learning=False, reports no error and returns an
\* object whose rounding_type, quantizer_config and every other attribute hold
\* the values passed (the defaults where none was passed), n_iter or n_epochs
\* included; the construction with every keyword argument left out is one of
\* them.
C12_MatchingPairStoredVerbatim ==
    (/\ IsInitCall
     /\ \/ /\ last.rounding_type = "SoftQuantizer"
           /\ last.quantizer_config.type = "SoftQuantizerConfig"
        \/ /\ last.rounding_type = "STE"
           /\ last.quantizer_config.type = "GPTQQuantizerConfig"
           /\ ~last.quantization_parameters_learning)
    => /\ Accepted
       /\ config[1].class = last.op
       /\ \A k \in DOMAIN V1Defaults : config[1].attrs[k] = Passed(k)
       /\ config[1].attrs.optimizer = "opt"
       /\ IF last.op = "GradientPTQConfig"
          THEN /\ config[1].attrs.n_iter = Some(last.n)
               /\ DOMAIN config[1].attrs = DOMAIN V1Defaults \cup {"n_iter", "optimizer"}
          ELSE /\ config[1].attrs.n_epochs = Some(last.n)
               /\ config[1].attrs.n_iter = None
               /\ DOMAIN config[1].attrs
                    = DOMAIN V1Defaults \cup {"n_iter", "optimizer", "n_epochs"}
       /\ last.kw = <<>> => Accepted

C12_Witness ==
    /\ last.op = "GradientPTQConfig"
    /\ last.rounding_type = "STE"
    /\ last.quantizer_config.type = "GPTQQuantizerConfig"
    /\ ~last.quantization_parameters_learning
    /\ "optimizer_bias" \in DOMAIN last.kw
    /\ Accepted
    /\ config[1].attrs.rounding_type = "STE"
    /\ config[1].attrs.optimizer_bias = Some("opt_bias")
    /\ config[1].attrs.optimizer_quantization_parameter = Some("opt_qp")

\* an object whose attributes pass both checks of __init__
PassedValidation(attrs) ==
    /\ "quantizer_config" \in DOMAIN attrs
    /\ verify_quantizer_config(attrs.quantizer_config, attrs.rounding_type)
    /\ ~QplSteConflict(attrs.quantization_parameters_learning, attrs.rounding_type)

\* C13: from_v1 applied to a V1 config that passed validation (with
\* n_ptq_iter >= 1) returns a V2
\* config in which every attribute of the V1 config other than n_iter has the
\* value it has in the V1 config; the values went through the checks of
\* __init__ again and pass them, no error is reported, rounding_type and
\* quantizer_config are the V1 config's, and the V1 config is as it was before
\* the call.
C13_FromV1CarriesFieldsOver ==
    (/\ last.op = "from_v1"
     /\ last.config_v1_before.class = "GradientPTQConfig"
     /\ PassedValidation(last.config_v1_before.attrs)
     /\ last.n_ptq_iter >= 1)
    => LET v1 == last.config_v1_before.attrs
       IN /\ last.exc = None
          /\ last.errors = <<>>
          /\ converted # None
          /\ converted[1].class = "GradientPTQConfigV2"
          /\ \A k \in DOMAIN v1 \ {"n_iter"} : converted[1].attrs[k] = v1[k]
          /\ DOMAIN converted[1].attrs = DOMAIN v1 \cup {"n_epochs"}
          /\ converted[1].attrs.rounding_type = v1.rounding_type
          /\ converted[1].attrs.quantizer_config = v1.quantizer_config
          /\ PassedValidation(converted[1].attrs)
          /\ config = Some(last.config_v1_before)

C13_Witness ==
    /\ last.op = "from_v1"
    /\ last.config_v1_before.class = "GradientPTQConfig"
    /\ last.n_ptq_iter = 2
    /\ config[1].attrs.rounding_type = "STE"
    /\ config[1].attrs.quantizer_config.type = "GPTQQuantizerConfig"
    /\ config[1].attrs.lsb_change_per_bit_width = "DefaultDict_user"
    /\ config[1].attrs.train_bias = FALSE
    /\ converted # None
    /\ converted[1].attrs.rounding_type = "STE"
    /\ converted[1].attrs.quantizer_config.type = "GPTQQuantizerConfig"
    /\ converted[1].attrs.lsb_change_per_bit_width = "DefaultDict_user"
    /\ converted[1].attrs.train_bias = FALSE

\* C14: every GradientPTQConfigV2 object, built by its constructor or by
\* from_v1, has n_iter None and an n_epochs attribute; every GradientPTQConfig
\* object has an n_iter attribute and no n_epochs attribute; no object has both
\* an n_iter other than None and an n_epochs attribute.
C14_IterationUnitsExclusive ==
    \A c \in Held :
        /\ c.class = "GradientPTQConfigV2"
           => /\ "n_iter" \in DOMAIN c.attrs
              /\ c.attrs.n_iter = None
              /\ "n_epochs" \in DOMAIN c.attrs
        /\ c.class = "GradientPTQConfig"
           => /\ "n_iter" \in DOMAIN c.attrs
              /\ c.attrs.n_iter # None
              /\ "n_epochs" \notin DOMAIN c.attrs
        /\ ~(/\ "n_iter" \in DOMAIN c.attrs
             /\ c.attrs.n_iter # None
             /\ "n_epochs" \in DOMAIN c.attrs)

C14_Witness ==
    /\ config # None
    /\ config[1].class = "GradientPTQConfig"
    /\ config[1].attrs.n_iter = Some(MaxIter)
    /\ converted # None
    /\ converted[1].class = "GradientPTQConfigV2"
    /\ converted[1].attrs.n_iter = None
    /\ converted[1].attrs.n_epochs = Some(1)
    /\ other # None
    /\ other[1].class = "GradientPTQConfigV2"
    /\ other[1].attrs.n_epochs = Some(MaxIter)

\* C15: a config built with lsb_change_per_bit_width (and quantizer_config)
\* left out has a default mapping of its own: whatever constructions were made
\* and whatever overrides were written into the mapping of another instance, a
\* config built with every keyword argument left out reads the fallback value
\* for every bit width from its own mapping.
C15_DefaultMappingFresh ==
    \A i \in DOMAIN other : \A b \in BitWidths :
        DefaultDict_get(dicts[other[i].attrs.lsb_change_per_bit_width], b)
            = LsbFallback

====
